---- MODULE Spec2Model ----
(***************************************************************************)
(* ReversibleKeyMap (ts/src/ReversibleKeyMap.ts): a map from an unordered  *)
(* couple of keys to a value, stored as Map<key, Map<co-key, value>> with  *)
(* one directional entry under each of the two keys.                       *)
(*                                                                         *)
(* A JavaScript Map is modelled as the sequence of its entries in          *)
(* insertion order, each entry a record [key, val]: iteration order of the *)
(* built-in Map is observable (entries(), deleteAllFrom) and is kept.      *)
(***************************************************************************)
EXTENDS Integers, Sequences, FiniteSets, TLC

\* Bound of the model: the number of calls made on the map.
MaxOps == 4

\* The value `undefined`, which get() returns for an absent couple and which
\* is also a legal member of the value type T.
Undefined == 0

\* Keys are opaque to the code (only hashed and compared) and values are only
\* copied, never inspected: three keys give every shape of couples sharing
\* keys, two values show any entry that is not written. undefined can be
\* stored like any other value.
Keys == {"a", "b", "c"}
Values == {Undefined, 1}

(***************************************************************************)
(* The built-in Map, as the code uses it.                                  *)
(***************************************************************************)
MapHas(m, k) == \E i \in 1..Len(m) : m[i].key = k

MapIndex(m, k) == CHOOSE i \in 1..Len(m) : m[i].key = k

\* Map.prototype.get on a key that is present (callers test MapHas first).
MapGet(m, k) == m[MapIndex(m, k)].val

\* Map.prototype.set: an existing key keeps its position, a new key is appended.
MapSet(m, k, v) ==
    IF MapHas(m, k)
    THEN [m EXCEPT ![MapIndex(m, k)].val = v]
    ELSE Append(m, [key |-> k, val |-> v])

MapDelete(m, k) == SelectSeq(m, LAMBDA e : e.key # k)

MapSize(m) == Len(m)

MapKeys(m) == [i \in 1..Len(m) |-> m[i].key]

(***************************************************************************)
(* Queries.                                                                *)
(***************************************************************************)
has(m, k1) == MapHas(m, k1)

\* this.map.has(k1) ? this.map.get(k1).get(k2) : undefined ; the inner
\* Map.get gives undefined for a missing co-key.
get(m, k1, k2) ==
    IF MapHas(m, k1)
    THEN IF MapHas(MapGet(m, k1), k2) THEN MapGet(MapGet(m, k1), k2) ELSE Undefined
    ELSE Undefined

\* hasCouple, but decided by the value get returns.
hasCouple_ByValue(m, k1, k2) == get(m, k1, k2) # Undefined

hasCouple(m, k1, k2) ==
    IF MapHas(m, k1) THEN MapHas(MapGet(m, k1), k2) ELSE FALSE

\* What getAllFrom returns: the secondary map of k1 itself, or undefined when
\* k1 is no top-level key (Map.prototype.get on a missing key).
UndefinedMap == [defined |-> FALSE]

\* getAllFrom, but an unknown key gives an empty map.
getAllFrom_EmptyForUnknown(m, k1) ==
    IF MapHas(m, k1) THEN [defined |-> TRUE, map |-> MapGet(m, k1)]
    ELSE [defined |-> TRUE, map |-> <<>>]

getAllFrom(m, k1) ==
    IF MapHas(m, k1) THEN [defined |-> TRUE, map |-> MapGet(m, k1)] ELSE UndefinedMap

(***************************************************************************)
(* Mutators, as functions from the index to the index they leave.          *)
(***************************************************************************)
\* set, but the entry under k2 is written only when k2 is a new top-level key.
set_NoReverseUpdate(m, k1, k2, value) ==
    LET m1 == IF MapHas(m, k1)
              THEN MapSet(m, k1, MapSet(MapGet(m, k1), k2, value))
              ELSE MapSet(m, k1, <<[key |-> k2, val |-> value]>>)
        m2 == IF MapHas(m1, k2)
              THEN m1
              ELSE MapSet(m1, k2, <<[key |-> k1, val |-> value]>>)
    IN  m2

\* set, but a couple that is already stored keeps its value.
set_KeepExisting(m, k1, k2, value) ==
    IF hasCouple(m, k1, k2)
    THEN m
    ELSE LET m1 == IF MapHas(m, k1)
                   THEN MapSet(m, k1, MapSet(MapGet(m, k1), k2, value))
                   ELSE MapSet(m, k1, <<[key |-> k2, val |-> value]>>)
             m2 == IF MapHas(m1, k2)
                   THEN MapSet(m1, k2, MapSet(MapGet(m1, k2), k1, value))
                   ELSE MapSet(m1, k2, <<[key |-> k1, val |-> value]>>)
         IN  m2

\* set, but the secondary map of k2 is always replaced by a fresh one.
set_ReplaceSecondary(m, k1, k2, value) ==
    LET m1 == IF MapHas(m, k1)
              THEN MapSet(m, k1, MapSet(MapGet(m, k1), k2, value))
              ELSE MapSet(m, k1, <<[key |-> k2, val |-> value]>>)
    IN  MapSet(m1, k2, <<[key |-> k1, val |-> value]>>)

set(m, k1, k2, value) ==
    LET m1 == IF MapHas(m, k1)
              THEN MapSet(m, k1, MapSet(MapGet(m, k1), k2, value))
              ELSE MapSet(m, k1, <<[key |-> k2, val |-> value]>>)
        m2 == IF MapHas(m1, k2)
              THEN MapSet(m1, k2, MapSet(MapGet(m1, k2), k1, value))
              ELSE MapSet(m1, k2, <<[key |-> k1, val |-> value]>>)
    IN  m2

\* delete, but only the entry under k1 is removed.
delete_OneSide(m, k1, k2) ==
    IF hasCouple(m, k1, k2)
    THEN LET k1map == MapDelete(MapGet(m, k1), k2)
             ma == MapSet(m, k1, k1map)
             mb == IF MapSize(k1map) = 0 THEN MapDelete(ma, k1) ELSE ma
         IN  [map |-> mb, threw |-> FALSE]
    ELSE [map |-> m, threw |-> FALSE]

\* delete, but a secondary map left empty keeps its top-level entry.
delete_KeepEmpty(m, k1, k2) ==
    IF hasCouple(m, k1, k2)
    THEN LET k1map == MapDelete(MapGet(m, k1), k2)
             ma == MapSet(m, k1, k1map)
             k2map == MapDelete(MapGet(ma, k2), k1)
             mc == MapSet(ma, k2, k2map)
         IN  [map |-> mc, threw |-> FALSE]
    ELSE [map |-> m, threw |-> FALSE]

\* delete, but the top-level entries of the two keys are removed whole.
delete_DropsKeys(m, k1, k2) ==
    IF hasCouple(m, k1, k2)
    THEN [map |-> MapDelete(MapDelete(m, k1), k2), threw |-> FALSE]
    ELSE [map |-> m, threw |-> FALSE]

\* delete gives the index it leaves and whether it raised: when k1map became
\* empty and k1 = k2, this.map.get(k2) is undefined and k2map.delete(k1) is a
\* TypeError, raised after the top-level entry of k1 has been removed.
delete(m, k1, k2) ==
    IF hasCouple(m, k1, k2)
    THEN LET k1map == MapDelete(MapGet(m, k1), k2)
             ma == MapSet(m, k1, k1map)
             mb == IF MapSize(k1map) = 0 THEN MapDelete(ma, k1) ELSE ma
         IN  IF ~MapHas(mb, k2)
             THEN [map |-> mb, threw |-> TRUE]
             ELSE LET k2map == MapDelete(MapGet(mb, k2), k1)
                      mc == MapSet(mb, k2, k2map)
                      md == IF MapSize(k2map) = 0 THEN MapDelete(mc, k2) ELSE mc
                  IN  [map |-> md, threw |-> FALSE]
    ELSE [map |-> m, threw |-> FALSE]

\* The loop of deleteAllFrom, but the entry that follows a removed one is
\* skipped (an index into a list that shrinks under it).
RECURSIVE deleteAllFromLoop_Skip(_, _, _, _)
deleteAllFromLoop_Skip(m, k1, ks, i) ==
    IF i > Len(ks)
    THEN [map |-> m, threw |-> FALSE]
    ELSE IF ~hasCouple(m, k1, ks[i])
         THEN deleteAllFromLoop_Skip(m, k1, ks, i + 1)
         ELSE LET r == delete(m, k1, ks[i])
              IN  IF r.threw THEN r ELSE deleteAllFromLoop_Skip(r.map, k1, ks, i + 2)

\* The for-of loop of deleteAllFrom over the live secondary map of k1. ks is
\* the entry list of that map when the loop starts and i the iterator's index
\* in it: the iterator visits entry i unless it has been removed meanwhile
\* (nothing is added during the loop), and an exception of delete ends the loop.
RECURSIVE deleteAllFromLoop(_, _, _, _)
deleteAllFromLoop(m, k1, ks, i) ==
    IF i > Len(ks)
    THEN [map |-> m, threw |-> FALSE]
    ELSE IF ~hasCouple(m, k1, ks[i])
         THEN deleteAllFromLoop(m, k1, ks, i + 1)
         ELSE LET r == delete(m, k1, ks[i])
              IN  IF r.threw THEN r ELSE deleteAllFromLoop(r.map, k1, ks, i + 1)

\* deleteAllFrom, but only the top-level entry of k1 is removed.
deleteAllFrom_TopLevelOnly(m, k1) == [map |-> MapDelete(m, k1), threw |-> FALSE]

deleteAllFrom(m, k1) ==
    IF has(m, k1)
    THEN deleteAllFromLoop(m, k1, MapKeys(MapGet(m, k1)), 1)
    ELSE [map |-> m, threw |-> FALSE]

\* clear, but it empties the secondary maps and keeps the top-level entries.
clear_InnerOnly(m) == [i \in 1..Len(m) |-> [key |-> m[i].key, val |-> <<>>]]

clear(m) == <<>>

(***************************************************************************)
(* getAllFrom(k1) returns this.map.get(k1), the secondary Map object that   *)
(* the index holds: what a caller does to the object returned is done to   *)
(* the index. The index after the caller's getAllFrom(k1).delete(c).        *)
(***************************************************************************)
\* getAllFrom returning a copy of the secondary map: the caller's delete does
\* not reach the index.
deleteThroughGetAllFrom_Copy(m, k1, c) == m

deleteThroughGetAllFrom(m, k1, c) == MapSet(m, k1, MapDelete(MapGet(m, k1), c))

(***************************************************************************)
(* entries(): the generator drained to the end. couples is the side-table  *)
(* of couples already visited, i and j the positions of the two for-of     *)
(* loops, out the items yielded so far, each <<<<key1, key2>>, value>>.    *)
(***************************************************************************)
\* entries() without the side-table: every directional entry is yielded.
RECURSIVE entriesFrom_NoDedup(_, _, _, _, _)
entriesFrom_NoDedup(m, i, j, couples, out) ==
    IF i > Len(m)
    THEN out
    ELSE IF j > Len(m[i].val)
         THEN entriesFrom_NoDedup(m, i + 1, 1, couples, out)
         ELSE entriesFrom_NoDedup(m, i, j + 1, couples,
                  Append(out, <<<<m[i].key, m[i].val[j].key>>, m[i].val[j].val>>))

\* entries(), but a couple is yielded as [key2, key1].
RECURSIVE entriesFrom_Swapped(_, _, _, _, _)
entriesFrom_Swapped(m, i, j, couples, out) ==
    IF i > Len(m)
    THEN out
    ELSE LET key1 == m[i].key
             inner == m[i].val
             c1 == IF key1 \in DOMAIN couples THEN couples ELSE couples @@ (key1 :> {})
         IN  IF j > Len(inner)
             THEN entriesFrom_Swapped(m, i + 1, 1, c1, out)
             ELSE LET key2 == inner[j].key
                      value == inner[j].val
                      c2 == IF key2 \in DOMAIN c1 THEN c1 ELSE c1 @@ (key2 :> {})
                      out2 == IF key2 \notin c2[key1]
                              THEN Append(out, <<<<key2, key1>>, value>>)
                              ELSE out
                      c3 == [c2 EXCEPT ![key1] = @ \cup {key2}]
                      c4 == [c3 EXCEPT ![key2] = @ \cup {key1}]
                  IN  entriesFrom_Swapped(m, i, j + 1, c4, out2)

RECURSIVE entriesFrom(_, _, _, _, _)
entriesFrom(m, i, j, couples, out) ==
    IF i > Len(m)
    THEN out
    ELSE LET key1 == m[i].key
             inner == m[i].val
             c1 == IF key1 \in DOMAIN couples THEN couples ELSE couples @@ (key1 :> {})
         IN  IF j > Len(inner)
             THEN entriesFrom(m, i + 1, 1, c1, out)
             ELSE LET key2 == inner[j].key
                      value == inner[j].val
                      c2 == IF key2 \in DOMAIN c1 THEN c1 ELSE c1 @@ (key2 :> {})
                      out2 == IF key2 \notin c2[key1]
                              THEN Append(out, <<<<key1, key2>>, value>>)
                              ELSE out
                      c3 == [c2 EXCEPT ![key1] = @ \cup {key2}]
                      c4 == [c3 EXCEPT ![key2] = @ \cup {key1}]
                  IN  entriesFrom(m, i, j + 1, c4, out2)

entries(m) == entriesFrom(m, 1, 1, <<>>, <<>>)

\* keys(), but taken from the couples of entries(): the first key of each.
keys_FirstOfCouples(m) == LET E == entries(m) IN [i \in 1..Len(E) |-> E[i][1][1]]

\* keys(): the key iterator of the top-level Map, drained.
keys(m) == MapKeys(m)

\* values(), but a value already yielded is not yielded again.
values_DedupByValue(m) ==
    LET E == entries(m)
        I == {i \in 1..Len(E) : \A j \in 1..(i - 1) : E[j][2] # E[i][2]}
        nth(n) == CHOOSE i \in I : Cardinality({j \in I : j < i}) = n - 1
    IN  [n \in 1..Cardinality(I) |-> E[nth(n)][2]]

\* values(): the value of each item of the iteration.
values(m) == LET E == entries(m) IN [i \in 1..Len(E) |-> E[i][2]]

\* [...this.values()].length
count(m) == Len(values(m))

\* The size getter, but giving the number of couples.
size_CountsCouples(m) == count(m)

size(m) == MapSize(m)

(***************************************************************************)
(* entries() consumed step by step. A call of entries() returns a          *)
(* generator whose body has not started; each next() runs the body to its  *)
(* next yield or to its end. The side-table `couples` is an object the     *)
(* body allocates when it starts: tables maps the identity of each such    *)
(* object to its content, and a generator holds the identity of its own.   *)
(* out is what the generator has yielded so far.                           *)
(***************************************************************************)
\* The side-table shared by all generators (one object for the instance).
couplesOf_Shared(g) == "g1"

\* The identity of the Map that `const couples = new Map` gives generator g: a
\* fresh object for each call.
couplesOf(g) == g

\* The body of entries() from the tests of the loops at positions i, j, up to
\* the next yield (the generator is suspended in the inner loop, before the
\* side-table is updated) or to the end. Gives the generator and its table.
RECURSIVE entriesRun(_, _, _, _, _, _)
entriesRun(m, i, j, cid, couples, out) ==
    IF i > Len(m)
    THEN [gen |-> [status |-> "done", i |-> i, j |-> j, couples |-> cid, out |-> out],
          table |-> couples]
    ELSE LET key1 == m[i].key
             inner == m[i].val
             c1 == IF key1 \in DOMAIN couples THEN couples ELSE couples @@ (key1 :> {})
         IN  IF j > Len(inner)
             THEN entriesRun(m, i + 1, 1, cid, c1, out)
             ELSE LET key2 == inner[j].key
                      value == inner[j].val
                      c2 == IF key2 \in DOMAIN c1 THEN c1 ELSE c1 @@ (key2 :> {})
                      c3 == [c2 EXCEPT ![key1] = @ \cup {key2}]
                      c4 == [c3 EXCEPT ![key2] = @ \cup {key1}]
                  IN  IF key2 \notin c2[key1]
                      THEN [gen |-> [status |-> "suspended", i |-> i, j |-> j,
                                     couples |-> cid,
                                     out |-> Append(out, <<<<key1, key2>>, value>>)],
                            table |-> c2]
                      ELSE entriesRun(m, i, j + 1, cid, c4, out)

\* One next() on generator g: a generator not started allocates its side-table
\* and runs from the top; a suspended one records the couple it has yielded
\* (k1set.add(key2); couples.get(key2).add(key1)) and goes on with the inner
\* loop; a finished one stays finished.
entriesNext(m, g, gen, tabs) ==
    IF gen.status = "created"
    THEN entriesRun(m, 1, 1, couplesOf(g), <<>>, <<>>)
    ELSE IF gen.status = "suspended"
         THEN LET key1 == m[gen.i].key
                  key2 == m[gen.i].val[gen.j].key
                  c2 == tabs[gen.couples]
                  c2a == IF key1 \in DOMAIN c2 THEN c2 ELSE c2 @@ (key1 :> {})
                  c2b == IF key2 \in DOMAIN c2a THEN c2a ELSE c2a @@ (key2 :> {})
                  c3 == [c2b EXCEPT ![key1] = @ \cup {key2}]
                  c4 == [c3 EXCEPT ![key2] = @ \cup {key1}]
              IN  entriesRun(m, gen.i, gen.j + 1, gen.couples, c4, gen.out)
         ELSE [gen |-> gen, table |-> tabs[gen.couples]]

(***************************************************************************)
(* The constructor: set is called for each tuple [[k1, k2], value] of the  *)
(* iterable, in its order. An iterable that is not given is the empty one. *)
(***************************************************************************)
\* The constructor's loop, but a tuple whose couple is already stored is skipped.
RECURSIVE constructorLoop_FirstWins(_, _, _)
constructorLoop_FirstWins(m, tuples, i) ==
    IF i > Len(tuples)
    THEN m
    ELSE constructorLoop_FirstWins(
             IF hasCouple(m, tuples[i][1][1], tuples[i][1][2])
             THEN m
             ELSE set(m, tuples[i][1][1], tuples[i][1][2], tuples[i][2]),
             tuples, i + 1)

RECURSIVE constructorLoop(_, _, _)
constructorLoop(m, tuples, i) ==
    IF i > Len(tuples)
    THEN m
    ELSE constructorLoop(set(m, tuples[i][1][1], tuples[i][1][2], tuples[i][2]),
                         tuples, i + 1)

constructor(tuples) == constructorLoop(<<>>, tuples, 1)

(***************************************************************************)
(* State: the index, and the last call made on it (its name and arguments, *)
(* the index before it, whether it raised). it is the iterable a           *)
(* construction is given. iters are the generators that entries() calls    *)
(* have returned and tables the side-tables they allocated.                *)
(***************************************************************************)
VARIABLES map, prev, last, threw, nops, it, iters, tables

vars == <<map, prev, last, threw, nops, it, iters, tables>>

\* Placeholder for the arguments a call does not take.
NoKey == "-"

\* The generators a caller holds at the same time.
Iterators == {"g1", "g2"}

\* A generator that entries() has not been called for yet.
NoIterator == [status |-> "none", i |-> 0, j |-> 0, couples |-> NoKey, out |-> <<>>]

Init ==
    /\ map = <<>>
    /\ prev = <<>>
    /\ last = [op |-> "new", k1 |-> NoKey, k2 |-> NoKey, value |-> Undefined]
    /\ threw = FALSE
    /\ nops = 0
    /\ it = <<>>
    /\ iters = [g \in Iterators |-> NoIterator]
    /\ tables = [g \in Iterators |-> <<>>]

DoSet(k1, k2, value) ==
    /\ nops < MaxOps
    /\ map' = set(map, k1, k2, value)
    /\ prev' = map
    /\ last' = [op |-> "set", k1 |-> k1, k2 |-> k2, value |-> value]
    /\ threw' = FALSE
    /\ nops' = nops + 1
    /\ UNCHANGED <<it, iters, tables>>

DoDelete(k1, k2) ==
    /\ nops < MaxOps
    /\ map' = delete(map, k1, k2).map
    /\ threw' = delete(map, k1, k2).threw
    /\ prev' = map
    /\ last' = [op |-> "delete", k1 |-> k1, k2 |-> k2, value |-> Undefined]
    /\ nops' = nops + 1
    /\ UNCHANGED <<it, iters, tables>>

DoDeleteAllFrom(k1) ==
    /\ nops < MaxOps
    /\ map' = deleteAllFrom(map, k1).map
    /\ threw' = deleteAllFrom(map, k1).threw
    /\ prev' = map
    /\ last' = [op |-> "deleteAllFrom", k1 |-> k1, k2 |-> NoKey, value |-> Undefined]
    /\ nops' = nops + 1
    /\ UNCHANGED <<it, iters, tables>>

DoClear ==
    /\ nops < MaxOps
    /\ map' = clear(map)
    /\ prev' = map
    /\ last' = [op |-> "clear", k1 |-> NoKey, k2 |-> NoKey, value |-> Undefined]
    /\ threw' = FALSE
    /\ nops' = nops + 1
    /\ UNCHANGED <<it, iters, tables>>

Next ==
    \/ \E k1 \in Keys, k2 \in Keys, value \in Values : DoSet(k1, k2, value)
    \/ \E k1 \in Keys, k2 \in Keys : DoDelete(k1, k2)
    \/ \E k1 \in Keys : DoDeleteAllFrom(k1)
    \/ DoClear

Spec == Init /\ [][Next]_vars

\* The same calls, for the properties of what the queries and iterators
\* (hasCouple and get, getAllFrom, keys, values, entries) show of the index they
\* leave and of what one call of set or delete does to it: a shorter history of
\* calls reaches their cases.
MaxCalls == 3

Call == nops < MaxCalls /\ Next

SpecQuery == Init /\ [][Call]_vars

(***************************************************************************)
(* Construction from an iterable, next to the same calls of set made one   *)
(* by one on a map constructed empty.                                      *)
(***************************************************************************)
\* Bound: the length of the iterable given to the constructor.
MaxTuples == 3

Tuples == {<<<<k1, k2>>, value>> : k1 \in Keys, k2 \in Keys, value \in Values}

Iterables == UNION {[1..n -> Tuples] : n \in 0..MaxTuples}

InitCtor ==
    /\ it \in Iterables
    /\ map = <<>>
    /\ prev = <<>>
    /\ last = [op |-> "new", k1 |-> NoKey, k2 |-> NoKey, value |-> Undefined]
    /\ threw = FALSE
    /\ nops = 0
    /\ iters = [g \in Iterators |-> NoIterator]
    /\ tables = [g \in Iterators |-> <<>>]

\* The next tuple of the iterable is given to set.
SetNextTuple ==
    /\ nops < Len(it)
    /\ DoSet(it[nops + 1][1][1], it[nops + 1][1][2], it[nops + 1][2])

NextCtor == SetNextTuple

SpecCtor == InitCtor /\ [][NextCtor]_vars

(***************************************************************************)
(* Several iterations over the same container: once the container is       *)
(* built, entries() is called for each generator and the generators are    *)
(* advanced in any interleaving, without mutation in between.              *)
(***************************************************************************)
\* Bound: the number of mutating calls that build the container iterated.
MaxBuild == 3

\* entries() is called: the generator is created and its body has not started.
EntriesCall(g) ==
    /\ iters[g].status = "none"
    /\ iters' = [iters EXCEPT ![g] = [status |-> "created", i |-> 0, j |-> 0,
                                      couples |-> NoKey, out |-> <<>>]]
    /\ prev' = map
    /\ last' = [op |-> "entries", k1 |-> NoKey, k2 |-> NoKey, value |-> Undefined]
    /\ threw' = FALSE
    /\ UNCHANGED <<map, nops, it, tables>>

\* next() is called on a generator that has not finished.
EntriesNext(g) ==
    /\ iters[g].status \in {"created", "suspended"}
    /\ LET r == entriesNext(map, g, iters[g], tables)
       IN  /\ iters' = [iters EXCEPT ![g] = r.gen]
           /\ tables' = [tables EXCEPT ![r.gen.couples] = r.table]
    /\ UNCHANGED <<map, prev, last, threw, nops, it>>

\* The container is mutated only before the first entries() call.
Build ==
    /\ \A g \in Iterators : iters[g].status = "none"
    /\ nops < MaxBuild
    /\ Next

NextIter ==
    \/ Build
    \/ \E g \in Iterators : EntriesCall(g)
    \/ \E g \in Iterators : EntriesNext(g)

SpecIter == Init /\ [][NextIter]_vars

(***************************************************************************)
(* A caller that, after some calls of the methods, removes a co-key from    *)
(* the Map that getAllFrom gave it. This is the caller's last step: what the *)
(* methods do to an index they did not leave themselves is not followed.    *)
(***************************************************************************)
DoDeleteThroughGetAllFrom(k1, c) ==
    /\ last.op # "getAllFrom.delete"
    /\ getAllFrom(map, k1).defined
    /\ MapHas(getAllFrom(map, k1).map, c)
    /\ map' = deleteThroughGetAllFrom(map, k1, c)
    /\ prev' = map
    /\ last' = [op |-> "getAllFrom.delete", k1 |-> k1, k2 |-> c, value |-> Undefined]
    /\ threw' = FALSE
    /\ nops' = nops + 1
    /\ UNCHANGED <<it, iters, tables>>

CallBefore == last.op # "getAllFrom.delete" /\ Call

NextAlias ==
    \/ CallBefore
    \/ \E k1 \in Keys, c \in Keys : DoDeleteThroughGetAllFrom(k1, c)

SpecAlias == Init /\ [][NextAlias]_vars

(***************************************************************************)
(* Properties.                                                             *)
(***************************************************************************)
\* The unordered couple of two keys.
Couple(k1, k2) == {k1, k2}

\* The unordered couples an index holds, seen from either direction.
StoredCouples(m) ==
    {Couple(p[1], p[2]) : p \in {q \in Keys \X Keys :
                                    hasCouple(m, q[1], q[2]) \/ hasCouple(m, q[2], q[1])}}

\* C1. Symmetry: in every reachable state, for all keys a and b the index holds
\* b under a exactly when it holds a under b, and with the same value, so
\* hasCouple(a, b) = hasCouple(b, a) and get(a, b) = get(b, a).
C1_Symmetry ==
    \A a \in Keys, b \in Keys :
        /\ hasCouple(map, a, b) = hasCouple(map, b, a)
        /\ get(map, a, b) = get(map, b, a)

\* A delete has removed one couple and a couple of two distinct keys is still
\* stored, in both directions.
C1_Witness ==
    /\ last.op = "delete"
    /\ map # prev
    /\ \E a \in Keys, b \in Keys :
        a # b /\ hasCouple(map, a, b) /\ hasCouple(map, b, a)

\* C2. Immediately after set(k1, k2, v), get(k1, k2) = v and get(k2, k1) = v,
\* also when k1 = k2.
C2_SetThenGet ==
    last.op = "set" =>
        /\ get(map, last.k1, last.k2) = last.value
        /\ get(map, last.k2, last.k1) = last.value

\* set has overwritten the value of a couple that was stored with another value.
C2_Witness ==
    /\ last.op = "set"
    /\ hasCouple(prev, last.k2, last.k1)
    /\ get(prev, last.k2, last.k1) # last.value
    /\ has(prev, last.k1) /\ has(prev, last.k2)

\* C3. Draining entries() yields every stored unordered couple exactly once,
\* with its current value, and nothing else; a self-couple is yielded once.
C3_EntriesOncePerCouple ==
    LET E == entries(map)
    IN  /\ \A i \in 1..Len(E) :
               /\ hasCouple(map, E[i][1][1], E[i][1][2])
               /\ E[i][2] = get(map, E[i][1][1], E[i][1][2])
        /\ \A a \in Keys, b \in Keys :
               (hasCouple(map, a, b) \/ hasCouple(map, b, a)) =>
                   Cardinality({i \in 1..Len(E) :
                                    Couple(E[i][1][1], E[i][1][2]) = Couple(a, b)}) = 1

\* The index holds a self-couple and two couples of distinct keys that share a
\* key, so that entries() meets couples again from their other direction.
C3_Witness ==
    \E a \in Keys, b \in Keys, c \in Keys :
        /\ a # b /\ a # c /\ b # c
        /\ hasCouple(map, a, a)
        /\ hasCouple(map, a, b)
        /\ hasCouple(map, b, c)
        /\ Len(entries(map)) = 3

\* C4. No orphan: a key is a top-level entry exactly when its secondary map is
\* not empty, that is when it takes part in at least one stored couple.
C4_NoOrphan ==
    /\ \A i \in 1..Len(map) : MapSize(map[i].val) > 0
    /\ \A k \in Keys :
           has(map, k) <=> \E c \in Keys : hasCouple(map, k, c) \/ hasCouple(map, c, k)

\* delete or deleteAllFrom has removed the last couple of a key while another
\* key keeps a couple.
C4_Witness ==
    /\ last.op \in {"delete", "deleteAllFrom"}
    /\ \E k \in Keys : has(prev, k) /\ ~has(map, k)
    /\ \E k \in Keys : has(map, k)

\* C5. No operation throws: every call completes normally, in particular
\* delete(k, k) and deleteAllFrom(k) on a key that holds a self-couple.
C5_NoOperationThrows == threw = FALSE

\* delete(k, k) raised on a key whose only couple was the self-couple.
C5_Witness ==
    /\ last.op = "delete"
    /\ last.k1 = last.k2
    /\ threw

\* C6. When the couple {k1, k2} is stored (k1 = k2 allowed), after
\* delete(k1, k2) hasCouple(k1, k2) and hasCouple(k2, k1) are false, and each
\* of k1, k2 is a top-level key exactly when it had another couple.
C6_DeleteRemovesCouple ==
    (last.op = "delete" /\ hasCouple(prev, last.k1, last.k2)) =>
        /\ ~hasCouple(map, last.k1, last.k2)
        /\ ~hasCouple(map, last.k2, last.k1)
        /\ \A k \in {last.k1, last.k2} :
               has(map, k) <=>
                   \E c \in Keys : /\ Couple(k, c) # Couple(last.k1, last.k2)
                                   /\ hasCouple(prev, k, c)

\* delete has removed a couple of two distinct keys, one of which had no other
\* couple and the other of which keeps one.
C6_Witness ==
    /\ last.op = "delete"
    /\ last.k1 # last.k2
    /\ hasCouple(prev, last.k1, last.k2)
    /\ ~has(map, last.k1)
    /\ has(map, last.k2)

\* C7. After deleteAllFrom(k), has(k) is false and no item of entries()
\* contains k, whatever the co-keys of k; if k was unknown nothing changes.
C7_DeleteAllFromRemovesKey ==
    last.op = "deleteAllFrom" =>
        LET E == entries(map)
        IN  /\ ~has(map, last.k1)
            /\ \A i \in 1..Len(E) : last.k1 \notin Couple(E[i][1][1], E[i][1][2])
            /\ ~has(prev, last.k1) => map = prev

\* deleteAllFrom(k) has run on a key that held a self-couple and couples with
\* two other keys.
C7_Witness ==
    /\ last.op = "deleteAllFrom"
    /\ hasCouple(prev, last.k1, last.k1)
    /\ MapSize(MapGet(prev, last.k1)) = 3
    /\ ~has(map, last.k1)

\* C8. When the couple {a, b} is stored, set(b, a, v2) overwrites the value in
\* both directions and creates no second couple: size and count are unchanged.
C8_ResetOverwrites ==
    (last.op = "set" /\ hasCouple(prev, last.k2, last.k1)) =>
        /\ get(map, last.k1, last.k2) = last.value
        /\ get(map, last.k2, last.k1) = last.value
        /\ size(map) = size(prev)
        /\ count(map) = count(prev)

\* set has given a new value to a stored couple of two distinct keys, while
\* other couples are stored.
C8_Witness ==
    /\ last.op = "set"
    /\ last.k1 # last.k2
    /\ hasCouple(prev, last.k2, last.k1)
    /\ get(prev, last.k2, last.k1) # last.value
    /\ get(map, last.k2, last.k1) = last.value
    /\ count(prev) = 3

\* C9, as stated. count is the number of items entries() yields, and count is
\* at most size.
C9_CountAtMostSize ==
    /\ count(map) = Len(entries(map))
    /\ count(map) <= size(map)

\* C9, amended. count is the number of items entries() yields, and count is at
\* most size * (size + 1) / 2, the number of unordered couples (self-couples
\* included) of size keys.
C9_CountBounded ==
    /\ count(map) = Len(entries(map))
    /\ 2 * count(map) <= size(map) * (size(map) + 1)

\* More couples than keys are stored.
C9_Witness ==
    /\ count(map) > size(map)
    /\ Len(entries(map)) > size(map)

\* C10. size is the number of distinct keys that take part in a stored couple:
\* 0 for the empty map, 2 after a set of two distinct keys on the empty map, 1
\* after set(a, a, v) on the empty map.
C10_SizeCountsKeys ==
    /\ size(map) = Cardinality({k \in Keys : \E c \in Keys :
                                    hasCouple(map, k, c) \/ hasCouple(map, c, k)})
    /\ last.op = "new" => size(map) = 0
    /\ (last.op = "set" /\ prev = <<>>) =>
           size(map) = IF last.k1 = last.k2 THEN 1 ELSE 2

\* Two couples over three keys are stored after a delete.
C10_Witness ==
    /\ last.op = "delete"
    /\ map # prev
    /\ size(map) = 3
    /\ count(map) = 2

\* C11, as stated. For all keys k1, k2 and stored values of any kind, undefined
\* included, hasCouple(k1, k2) is true exactly when get(k1, k2) returns a value
\* and not undefined.
C11_HasCoupleIffGetDefined ==
    \A k1 \in Keys, k2 \in Keys :
        hasCouple(map, k1, k2) <=> get(map, k1, k2) # Undefined

\* C11, amended. hasCouple(k1, k2) is true exactly when the couple is stored,
\* whatever its value: it is true after set(k1, k2, v) also for v = undefined.
\* get(k1, k2) returns a value other than undefined only when hasCouple(k1, k2)
\* is true, and for a stored couple it returns undefined exactly when undefined
\* is the value stored.
C11_HasCoupleIffGetDefinedOrStoredUndefined ==
    \A k1 \in Keys, k2 \in Keys :
        /\ get(map, k1, k2) # Undefined => hasCouple(map, k1, k2)
        /\ hasCouple(map, k1, k2) =>
               (get(map, k1, k2) = Undefined
                    <=> MapGet(MapGet(map, k1), k2) = Undefined)
        /\ last.op = "set" =>
               /\ hasCouple(map, last.k1, last.k2)
               /\ get(map, last.k1, last.k2) # Undefined <=> last.value # Undefined

\* undefined has been stored for a couple while another couple holds a value.
C11_Witness ==
    /\ last.op = "set"
    /\ last.value = Undefined
    /\ hasCouple(map, last.k1, last.k2)
    /\ get(map, last.k1, last.k2) = Undefined
    /\ \E a \in Keys, b \in Keys : get(map, a, b) # Undefined

\* C12. delete(k1, k2) changes nothing but the couple {k1, k2}: every other
\* couple keeps its presence and value; when {k1, k2} is not stored the call
\* completes and leaves the index, size and count as they were, also when k1 is
\* a known key and k2 is not.
C12_DeleteFrame ==
    last.op = "delete" =>
        /\ \A x \in Keys, y \in Keys :
               Couple(x, y) # Couple(last.k1, last.k2) =>
                   /\ hasCouple(map, x, y) = hasCouple(prev, x, y)
                   /\ get(map, x, y) = get(prev, x, y)
        /\ ~hasCouple(prev, last.k1, last.k2) =>
               /\ map = prev
               /\ size(map) = size(prev)
               /\ count(map) = count(prev)
               /\ ~threw

\* delete has removed one of three stored couples.
C12_Witness ==
    /\ last.op = "delete"
    /\ hasCouple(prev, last.k1, last.k2)
    /\ count(prev) = 3
    /\ count(map) = 2

\* C13. After clear() the index is empty: size and count are 0, entries()
\* yields nothing, and has, get and getAllFrom find nothing for any key.
C13_ClearEmpties ==
    last.op = "clear" =>
        /\ size(map) = 0
        /\ count(map) = 0
        /\ entries(map) = <<>>
        /\ \A k \in Keys : ~has(map, k) /\ getAllFrom(map, k) = UndefinedMap
        /\ \A k1 \in Keys, k2 \in Keys : get(map, k1, k2) = Undefined

\* clear has run on an index that held three couples, one with a defined value.
C13_Witness ==
    /\ last.op = "clear"
    /\ count(prev) = 3
    /\ \E a \in Keys, b \in Keys : get(prev, a, b) # Undefined

\* What a traversal of keys() that calls getAllFrom on each key yielded
\* surfaces: <<i, j, key, co-key, value>> for the j-th entry of the mapping of
\* the i-th key.
Traversal(m) ==
    LET K == keys(m)
    IN  UNION {LET G == getAllFrom(m, K[i])
               IN  IF G.defined
                   THEN {<<i, j, K[i], G.map[j].key, G.map[j].val>> : j \in 1..Len(G.map)}
                   ELSE {}
               : i \in 1..Len(K)}

\* How many times the traversal surfaces the couple {a, b} with its value.
TimesSurfaced(T, m, a, b) ==
    Cardinality({t \in T : Couple(t[3], t[4]) = Couple(a, b) /\ t[5] = get(m, a, b)})

KeysYieldedOnce(m) ==
    LET K == keys(m)
    IN  /\ \A i \in 1..Len(K), j \in 1..Len(K) : K[i] = K[j] => i = j
        /\ {K[i] : i \in 1..Len(K)} = {k \in Keys : has(m, k)}

C17_GetAllFromIsSecondaryMap ==
    \A k1 \in Keys :
        LET G == getAllFrom(map, k1)
        IN  /\ G = UndefinedMap <=> ~has(map, k1)
            /\ G.defined =>
                   /\ {G.map[i].key : i \in 1..Len(G.map)}
                          = {c \in Keys : hasCouple(map, k1, c)}
                   /\ \A i \in 1..Len(G.map), j \in 1..Len(G.map) :
                          G.map[i].key = G.map[j].key => i = j
                   /\ \A i \in 1..Len(G.map) : G.map[i].val = get(map, k1, G.map[i].key)

\* One key maps two co-keys, one of them to a defined value, and another key is
\* unknown.
C17_Witness ==
    \E k \in Keys, u \in Keys :
        /\ ~has(map, u)
        /\ getAllFrom(map, u) = UndefinedMap
        /\ getAllFrom(map, k).defined
        /\ Len(getAllFrom(map, k).map) = 2
        /\ \E c \in Keys : get(map, k, c) # Undefined

\* C18. values() yields exactly one item per stored couple, the couple's value,
\* whether or not another couple holds the same value: the number of items is
\* the number of stored couples.
C18_ValuesOnePerCouple ==
    LET V == values(map)
        E == entries(map)
    IN  /\ Len(V) = Cardinality(StoredCouples(map))
        /\ Len(V) = Len(E)
        /\ \A i \in 1..Len(V) : V[i] = get(map, E[i][1][1], E[i][1][2])

\* Three couples are stored, two of them with the same value.
C18_Witness ==
    /\ Cardinality(StoredCouples(map)) = 3
    /\ Len(values(map)) = 3
    /\ \E i \in 1..3, j \in 1..3 : i # j /\ values(map)[i] = values(map)[j]

\* C19. From a state where the couple {k1, k2} is not stored, set(k1, k2, v)
\* followed by delete(k1, k2) completes and restores the index as it was before
\* the set: the same top-level keys, secondary maps, size and count.
C19_SetDeleteRoundTrip ==
    (last.op = "set" /\ ~hasCouple(prev, last.k1, last.k2)) =>
        LET r == delete(map, last.k1, last.k2)
        IN  /\ ~r.threw
            /\ r.map = prev
            /\ size(r.map) = size(prev)
            /\ count(r.map) = count(prev)

\* set has stored a self-couple on an unknown key; the delete that follows
\* raises, leaving the index as it was before the set.
C19_Witness ==
    /\ last.op = "set"
    /\ last.k1 = last.k2
    /\ ~has(prev, last.k1)
    /\ delete(map, last.k1, last.k2).threw
    /\ delete(map, last.k1, last.k2).map = prev

\* C20. deleteAllFrom(k1) removes exactly the couples {k1, c} of the co-keys c
\* of k1, skipping none; every couple without k1 keeps its presence and value;
\* a co-key stays a top-level key exactly when it has a couple left, one that
\* does not involve k1.
C20_DeleteAllFromFrame ==
    last.op = "deleteAllFrom" =>
        /\ \A x \in Keys, y \in Keys :
               /\ hasCouple(map, x, y) <=>
                      (hasCouple(prev, x, y) /\ x # last.k1 /\ y # last.k1)
               /\ (x # last.k1 /\ y # last.k1) => get(map, x, y) = get(prev, x, y)
        /\ \A c \in Keys :
               hasCouple(prev, last.k1, c) =>
                   (has(map, c) <=>
                        \E x \in Keys : c # last.k1 /\ x # last.k1 /\ hasCouple(prev, c, x))

\* deleteAllFrom(k) has run on a key with two other co-keys, one of which stays
\* a top-level key and one of which does not.
C20_Witness ==
    /\ last.op = "deleteAllFrom"
    /\ \E c1 \in Keys, c2 \in Keys :
           /\ c1 # last.k1 /\ c2 # last.k1 /\ c1 # c2
           /\ hasCouple(prev, last.k1, c1) /\ hasCouple(prev, last.k1, c2)
           /\ has(map, c1) /\ ~has(map, c2)

\* The last tuple of an iterable that names the couple of its i-th tuple, in
\* either key order.
LastTupleOf(tuples, i) ==
    CHOOSE j \in 1..Len(tuples) :
        /\ Couple(tuples[j][1][1], tuples[j][1][2]) = Couple(tuples[i][1][1], tuples[i][1][2])
        /\ \A l \in (j + 1)..Len(tuples) :
               Couple(tuples[l][1][1], tuples[l][1][2])
                   # Couple(tuples[i][1][1], tuples[i][1][2])

\* C14. Constructing the map from a sequence of tuples gives the state reached
\* from the empty map by set(k1, k2, value) for each tuple in order; when two
\* tuples name the same couple, in either key order, the later value wins and
\* the couple is counted once.
C14_ConstructorIsSetSequence ==
    /\ map = constructor(SubSeq(it, 1, nops))
    /\ nops = Len(it) =>
           /\ map = constructor(it)
           /\ \A i \in 1..Len(it) :
                  /\ get(map, it[i][1][1], it[i][1][2]) = it[LastTupleOf(it, i)][2]
                  /\ get(map, it[i][1][2], it[i][1][1]) = it[LastTupleOf(it, i)][2]
           /\ count(map) = Cardinality({Couple(it[i][1][1], it[i][1][2]) : i \in 1..Len(it)})
           /\ StoredCouples(map) = {Couple(it[i][1][1], it[i][1][2]) : i \in 1..Len(it)}

\* All tuples of an iterable have been set; its first and last tuple name the
\* same couple of distinct keys in opposite key orders with different values.
C14_Witness ==
    /\ Len(it) = 3
    /\ nops = Len(it)
    /\ it[1][1][1] # it[1][1][2]
    /\ it[3][1] = <<it[1][1][2], it[1][1][1]>>
    /\ it[3][2] # it[1][2]
    /\ map = constructor(it)
    /\ count(map) = 2

\* C15. Each call of entries() has its own side-table: when several iterations
\* over the same unmodified container are advanced in any interleaving, each
\* yields the sequence it would yield alone, every stored couple exactly once.
C15_IteratorsIndependent ==
    \A g \in Iterators :
        LET E == entries(map)
            out == iters[g].out
        IN  /\ Len(out) <= Len(E)
            /\ out = SubSeq(E, 1, Len(out))
            /\ iters[g].status = "suspended" => Len(out) >= 1
            /\ iters[g].status = "done" =>
                   /\ out = E
                   /\ \A c \in StoredCouples(map) :
                          Cardinality({n \in 1..Len(out) :
                                           Couple(out[n][1][1], out[n][1][2]) = c}) = 1

\* One generator is suspended after its first couple while the other, started
\* after it, has finished an iteration over three couples.
C15_Witness ==
    \E g \in Iterators, h \in Iterators :
        /\ g # h
        /\ iters[g].status = "suspended"
        /\ Len(iters[g].out) = 1
        /\ iters[h].status = "done"
        /\ Len(iters[h].out) = 3
        /\ Cardinality(StoredCouples(map)) = 3

\* What the queries show of an index, whatever the insertion order of its maps:
\* has, hasCouple, get, the content of getAllFrom, size, count and the set of
\* unordered couples, with their values, that entries() yields.
Content(m) ==
    LET E == entries(m)
    IN  [has       |-> [k \in Keys |-> has(m, k)],
         hasCouple |-> [p \in Keys \X Keys |-> hasCouple(m, p[1], p[2])],
         get       |-> [p \in Keys \X Keys |-> get(m, p[1], p[2])],
         all       |-> [k \in Keys |->
                           LET G == getAllFrom(m, k)
                           IN  IF G.defined
                               THEN [defined |-> TRUE,
                                     content |-> {<<G.map[j].key, G.map[j].val>> :
                                                      j \in 1..Len(G.map)}]
                               ELSE [defined |-> FALSE, content |-> {}]],
         size      |-> size(m),
         count     |-> Len(E),
         pairs     |-> {<<Couple(E[i][1][1], E[i][1][2]), E[i][2]>> : i \in 1..Len(E)}]

\* C21. The order of the two keys given to a mutator does not matter to the
\* content stored: the state set(k1, k2, v) leaves shows the same has, hasCouple,
\* get, getAllFrom content, size, count and unordered couples of entries() as
\* the state set(k2, k1, v) leaves from the same index, and likewise for
\* delete(k1, k2) and delete(k2, k1).
C21_ArgumentOrderIrrelevant ==
    /\ last.op = "set" =>
           Content(map) = Content(set(prev, last.k2, last.k1, last.value))
    /\ last.op = "delete" =>
           /\ Content(map) = Content(delete(prev, last.k2, last.k1).map)
           /\ threw = delete(prev, last.k2, last.k1).threw

\* set(k1, k2, v) was called with two distinct keys on an index that was not
\* empty, and set(k2, k1, v) would have left the top-level keys in another
\* insertion order.
C21_Witness ==
    /\ last.op = "set"
    /\ last.k1 # last.k2
    /\ prev # <<>>
    /\ map = set(prev, last.k1, last.k2, last.value)
    /\ map # set(prev, last.k2, last.k1, last.value)
    /\ keys(map) # keys(set(prev, last.k2, last.k1, last.value))

\* C22. Frame of set: set(k1, k2, v) leaves hasCouple(x, y) and get(x, y) as they
\* were for every couple {x, y} other than {k1, k2}, and no key other than k1
\* and k2 becomes or stops being a top-level key.
C22_SetFrame ==
    last.op = "set" =>
        /\ \A x \in Keys, y \in Keys :
               Couple(x, y) # Couple(last.k1, last.k2) =>
                   /\ hasCouple(map, x, y) = hasCouple(prev, x, y)
                   /\ get(map, x, y) = get(prev, x, y)
        /\ \A k \in Keys \ {last.k1, last.k2} : has(map, k) = has(prev, k)

\* set(k1, k2, v) has overwritten a stored couple with another value while each
\* of k1 and k2 also takes part in a couple with a third key.
C22_Witness ==
    /\ last.op = "set"
    /\ last.k1 # last.k2
    /\ hasCouple(prev, last.k1, last.k2)
    /\ get(prev, last.k1, last.k2) # last.value
    /\ get(map, last.k1, last.k2) = last.value
    /\ \E x \in Keys \ {last.k1, last.k2} :
           /\ hasCouple(prev, last.k2, x)
           /\ hasCouple(map, last.k2, x) /\ hasCouple(map, x, last.k2)
           /\ get(map, last.k2, x) = 1

\* C23. Order and orientation of entries(): couples are yielded grouped by
\* top-level key, the groups in the insertion order of the top-level keys and
\* each group in the order of the secondary map; a couple is yielded as
\* [k1, k2] under the first of its two keys in the top-level order, so k1 never
\* comes after k2 in that order.
C23_EntriesOrder ==
    LET E == entries(map)
        top(k) == MapIndex(map, k)
        sub(k1, k2) == MapIndex(MapGet(map, k1), k2)
    IN  /\ \A n \in 1..Len(E) :
               /\ hasCouple(map, E[n][1][1], E[n][1][2])
               /\ has(map, E[n][1][2])
               /\ top(E[n][1][1]) <= top(E[n][1][2])
        /\ \A n \in 1..Len(E), p \in 1..Len(E) :
               n < p =>
                   \/ top(E[n][1][1]) < top(E[p][1][1])
                   \/ /\ E[n][1][1] = E[p][1][1]
                      /\ sub(E[n][1][1], E[n][1][2]) < sub(E[p][1][1], E[p][1][2])

\* Three couples over three keys: the first key yields its two couples, the
\* second key, met again as a co-key, yields only the couple not yet visited,
\* and the third key yields nothing.
C23_Witness ==
    LET E == entries(map)
    IN  /\ Len(E) = 3
        /\ size(map) = 3
        /\ E[1][1][1] = E[2][1][1]
        /\ E[1][1][1] # E[1][1][2]
        /\ E[3][1] = <<E[1][1][2], E[2][1][2]>>
        /\ E[3][1][1] # E[3][1][2]
        /\ keys(map) = <<E[1][1][1], E[1][1][2], E[2][1][2]>>

\* C24, as stated. getAllFrom(k1) gives the secondary map itself: after a caller
\* removed a co-key c through it, hasCouple(k1, c) is false while
\* hasCouple(c, k1) is still true, and when the removal emptied the mapping,
\* k1 is still a top-level key, with an empty secondary map.
C24_AliasBreaksSymmetry ==
    last.op = "getAllFrom.delete" =>
        /\ ~hasCouple(map, last.k1, last.k2)
        /\ hasCouple(map, last.k2, last.k1)
        /\ MapSize(MapGet(prev, last.k1)) = 1 =>
               /\ has(map, last.k1)
               /\ getAllFrom(map, last.k1).defined
               /\ getAllFrom(map, last.k1).map = <<>>

\* C24, amended. getAllFrom(k1) gives the secondary map itself: after a caller
\* removed a co-key c through it, hasCouple(k1, c) is false; when c is another
\* key than k1, hasCouple(c, k1) is still true with its value, and when c is k1
\* itself the self-couple is gone from its only entry; when the removal
\* emptied the mapping, k1 is still a top-level key, with an empty secondary
\* map. Every other directional entry is as it was.
C24_AliasBreaksSymmetryOfDistinctKeys ==
    last.op = "getAllFrom.delete" =>
        /\ ~hasCouple(map, last.k1, last.k2)
        /\ last.k2 # last.k1 =>
               /\ hasCouple(map, last.k2, last.k1)
               /\ get(map, last.k2, last.k1) = get(prev, last.k2, last.k1)
        /\ last.k2 = last.k1 => ~hasCouple(map, last.k2, last.k1)
        /\ MapSize(MapGet(prev, last.k1)) = 1 =>
               /\ has(map, last.k1)
               /\ getAllFrom(map, last.k1).defined
               /\ getAllFrom(map, last.k1).map = <<>>
        /\ \A x \in Keys, y \in Keys :
               <<x, y>> # <<last.k1, last.k2>> =>
                   /\ hasCouple(map, x, y) = hasCouple(prev, x, y)
                   /\ get(map, x, y) = get(prev, x, y)
        /\ keys(map) = keys(prev)

\* A caller removed the only co-key of k1, another key c, through the map
\* getAllFrom(k1) gave: k1 is left with an empty secondary map and c still
\* holds the couple, next to a couple that was not touched.
C24_Witness ==
    /\ last.op = "getAllFrom.delete"
    /\ last.k2 # last.k1
    /\ hasCouple(prev, last.k1, last.k2)
    /\ MapSize(MapGet(prev, last.k1)) = 1
    /\ has(map, last.k1)
    /\ MapGet(map, last.k1) = <<>>
    /\ hasCouple(map, last.k2, last.k1)
    /\ ~hasCouple(map, last.k1, last.k2)
    /\ size(map) = 3

====
